---- MODULE Spec2Model ----
(***************************************************************************)
(* A model of src/core/src/core.js (PyScript core): the sticky module      *)
(* guard, the per-flavor plugin bootstrap and definition, the PyWorker /   *)
(* MPWorker facade, the main-thread onReady / onWorker hooks and the       *)
(* <TYPE>-script custom element.                                           *)
(*                                                                         *)
(* JavaScript runs each handler to its next `await` without interruption, *)
(* so every action below is one such run: from a call or a resumption to   *)
(* the next suspension point or to the handler's end.                      *)
(***************************************************************************)
EXTENDS Integers, Sequences, FiniteSets, TLC

\* ------------------------------------------------------------------ bounds
MaxLoads == 2      \* copies of the module evaluated in one page
MaxSpawns == 2     \* PyWorker / MPWorker calls
NumUnits == 2      \* execution units (elements) in the page
MaxDriven == 1     \* of these, the units the runtime drives in Spec and SpecHooks
MaxConnects == 2   \* connectedCallback invocations per custom element
MaxHooks == 2      \* plugin callbacks registered for one main-thread event
MaxWorkers == 1    \* workers the runtime creates from the main thread
MaxLines == 2      \* lines of a source text
MaxIndent == 2     \* columns of leading whitespace of a line

\* --------------------------------------------------------------- constants
\* core.js:23  TYPES, a Map iterated in insertion order: TYPE -> interpreter
TYPES == <<"py", "mpy">>
TypeSet == {TYPES[i] : i \in DOMAIN TYPES}
Interpreter(T) == IF T = "py" THEN "pyodide" ELSE "micropython"

Loads == 1..MaxLoads
Spawns == 1..MaxSpawns
NoLoad == 0
Units == 1..NumUnits
Driven == 1..MaxDriven
NoUnit == 0
NoError == "none"
\* core.js:8, 210  the messages the runtime's onerror channel can carry
ErrorMessages == {"INVALID_CONTENT", "other"}
NoId == <<>>
\* the plugin callbacks that can be registered, and the registrations possible
CallbackNames == <<"A", "B", "C">>
Callbacks == {CallbackNames[i] : i \in 1..MaxHooks}
Registrations ==
    {q \in UNION {[1..n -> Callbacks] : n \in 0..MaxHooks} :
        \A i, j \in DOMAIN q : i # j => q[i] # q[j]}
\* the registrations of the first n callbacks in the order of their names
Chains == {SubSeq(CallbackNames, 1, n) : n \in 0..MaxHooks}
Workers == 1..MaxWorkers

\* a source text: its lines, each blank or with its columns of leading whitespace
Lines == [indent : 0..MaxIndent, blank : {FALSE}] \cup {[indent |-> 0, blank |-> TRUE]}
Texts == UNION {[1..n -> Lines] : n \in 0..MaxLines}
\* the `target` attribute of a script: absent or empty, the id of an element of
\* the document, a selector matching an element that has no id, or a value that
\* matches nothing
TargetAttributes == {"", "id", "selector", "unknown"}

\* core.js:88-94  the names of the record handed to stickyModule
ExportNames == {"PyWorker", "MPWorker", "hooks", "config", "whenDefined"}

VARIABLES
    \* ---- the page and the copies of the module
    slot,          \* the process-wide slot: NoLoad, or the load whose record it holds
    loaded,        \* the loads whose top-level code has run
    alreadyLive,   \* [Loads -> BOOLEAN], core.js:87
    exported,      \* [Loads -> [ExportNames -> Loads \cup {NoLoad}]]: whose object each export is
    error,         \* [TypeSet -> BOOLEAN]: the flavor's config carries an error (core.js:120)
    pluginsCalls,  \* [Loads -> [TypeSet -> Nat]]: calls of plugins() (core.js:189)
    bootstrap,     \* [Loads -> [TypeSet -> {"none","pending","fulfilled","rejected"}]]
    hooked,        \* [Loads -> SUBSET TypeSet]: the keys of the copy's `hooked` Map (core.js:109)
    defined,       \* [TypeSet -> Nat]: calls of define(TYPE, ...) (core.js:314)
    registered,    \* [TypeSet -> Nat]: calls of customElements.define (core.js:326)
    configWrites,  \* [Loads -> SUBSET TypeSet]: exportedConfig[TYPE] written by the load (core.js:369)
    spawn,         \* [Spawns -> record]: the PyScriptWorker calls
    loadOrder,     \* history: the loads in the order their top-level code ran
    \* ---- the execution units of the page
    elem,          \* [Units -> record]: the element's tag, attributes and flavor
    mainHooks,     \* main("onReady"), main("onWorker"): the registered plugin callbacks
    errors,        \* the `errors` Maps (core.js:191), keyed by element
    alreadyRegistered, \* [TypeSet -> BOOLEAN], core.js:151
    jsModule,      \* [TypeSet -> Seq(Units)]: registerJsModule calls, by the unit whose io they capture
    currentElement,\* [TypeSet -> Units \cup {NoUnit}], core.js:154
    id,            \* [TypeSet -> Nat], core.js:123
    ids,           \* [Units -> id]: the id of the unit's display target (its own id for an element)
    onReadyPc,     \* [Units -> position of onReady up to its ledger check]
    hookIdx,       \* [Units -> Nat]: the onReady plugin callback being awaited
    bodyPc,        \* [Units -> position of the fetch / run sequence]
    executed,      \* [Units -> BOOLEAN]: the element's `executed` field (core.js:333)
    connects,      \* [Units -> Nat]: connectedCallback invocations
    wrapResolved,  \* [Units -> BOOLEAN]: element._wrap is resolved (core.js:246)
    srcCode,       \* [Units -> the source resolved for the unit]
    exec,          \* [Units -> state of the runAsync promise]
    targetSeen,    \* [Units -> set of ids]: what the unit's code read from `target`
    xworker,       \* [Workers -> record]: the workers handed to onWorker
    errBefore,     \* history [Units -> BOOLEAN]: onerror was called before the ledger check
    log,           \* [Units -> Seq(event)]: history of what happened to the unit
    dom,           \* [Units -> record]: the element's place, `target` attribute and content
    show,          \* [Units -> record]: the display element of a script (core.js:220-233)
    resolved,      \* [Units -> record]: what fetchSource returned for the unit (core.js:131-148)
    pyWorker       \* [Workers -> record]: the workers made by the injected PyWorker (core.js:163-167)

moduleVars == <<slot, loaded, alreadyLive, exported, error, pluginsCalls, bootstrap,
                hooked, defined, registered, configWrites, spawn, loadOrder>>

unitVars == <<elem, mainHooks, errors, alreadyRegistered, jsModule,
              currentElement, id, ids, onReadyPc, hookIdx, bodyPc, executed, connects,
              wrapResolved, srcCode, exec, targetSeen, xworker, errBefore, log,
              dom, show, resolved, pyWorker>>

vars == <<slot, loaded, alreadyLive, exported, error, pluginsCalls, bootstrap,
          hooked, defined, registered, configWrites, spawn, loadOrder,
          elem, mainHooks, errors, alreadyRegistered, jsModule,
          currentElement, id, ids, onReadyPc, hookIdx, bodyPc, executed, connects,
          wrapResolved, srcCode, exec, targetSeen, xworker, errBefore, log,
          dom, show, resolved, pyWorker>>

\* ------------------------------------------------------- module evaluation

\* sticky-module: the record in the slot and whether it was there already.
\* An absent slot is filled with the caller's record.
stickyModule(L) ==
    IF slot = NoLoad THEN <<L, FALSE>> ELSE <<slot, TRUE>>

\* core.js:96-104  what the load exports: the objects of the record in the slot
ExportLocal(record, L) ==
    [n \in ExportNames |-> IF n \in {"PyWorker", "MPWorker"} THEN L ELSE record]
Exports(record, L) ==
    [n \in ExportNames |-> record]

\* core.js:113  `if (alreadyLive) break;` leaves the loop before any flavor
BreakNever(live) == FALSE
Break(live) == live

\* core.js:185  `if (!error)`: plugins() is called for the flavor
BootstrapsAlways(T) == TRUE
BootstrapsFlavor(T) == ~error[T]

\* core.js:111-370  the flavors the loop body runs for
LoopTypes(live) == IF Break(live) THEN {} ELSE TypeSet

\* core.js:79-113, 120, 185-189, 369: the synchronous top-level code of one copy.
\* The callback of plugins().then(...) runs later, in BootstrapDone.
LoadModule(L) ==
    /\ L \notin loaded
    /\ LET sticky == stickyModule(L)
           record == sticky[1]
           live == sticky[2]
           ran == LoopTypes(live)
           boots == {T \in ran : BootstrapsFlavor(T)}
       IN /\ slot' = record
          /\ alreadyLive' = [alreadyLive EXCEPT ![L] = live]
          /\ exported' = [exported EXCEPT ![L] = Exports(record, L)]
          /\ pluginsCalls' = [pluginsCalls EXCEPT ![L] =
                 [T \in TypeSet |-> IF T \in boots THEN @[T] + 1 ELSE @[T]]]
          /\ bootstrap' = [bootstrap EXCEPT ![L] =
                 [T \in TypeSet |-> IF T \in boots THEN "pending" ELSE @[T]]]
          /\ configWrites' = [configWrites EXCEPT ![L] = @ \cup ran]
    /\ loaded' = loaded \cup {L}
    /\ loadOrder' = Append(loadOrder, L)
    /\ UNCHANGED <<error, hooked, defined, registered, spawn>>
    /\ UNCHANGED unitVars

\* core.js:189-365  the promise of plugins() fulfils and its callback runs:
\* the hook table is stored, the type defined, the custom element registered.
BootstrapDone(L, T) ==
    /\ bootstrap[L][T] = "pending"
    /\ bootstrap' = [bootstrap EXCEPT ![L][T] = "fulfilled"]
    /\ hooked' = [hooked EXCEPT ![L] = @ \cup {T}]
    /\ defined' = [defined EXCEPT ![T] = @ + 1]
    /\ registered' = [registered EXCEPT ![T] = @ + 1]
    /\ UNCHANGED <<slot, loaded, alreadyLive, exported, error, pluginsCalls,
                   configWrites, spawn, loadOrder>>
    /\ UNCHANGED unitVars

\* core.js:189  the promise of plugins() rejects: the callback never runs
BootstrapFailed(L, T) ==
    /\ bootstrap[L][T] = "pending"
    /\ bootstrap' = [bootstrap EXCEPT ![L][T] = "rejected"]
    /\ UNCHANGED <<slot, loaded, alreadyLive, exported, error, pluginsCalls,
                   hooked, defined, registered, configWrites, spawn, loadOrder>>
    /\ UNCHANGED unitVars

\* ------------------------------------------------------ the worker facade

WorkerExport(T) == IF T = "py" THEN "PyWorker" ELSE "MPWorker"

\* core.js:65-74  the facade assigns `sync` to the worker and returns its
\* `ready` promise; it sets no `onerror` on it
FacadeOnerror == "unset"

IdleSpawn == [pc |-> "idle", type |-> "py", owner |-> NoLoad, hooks |-> "none",
              onerror |-> "unset", raised |-> 0, reported |-> 0]

\* core.js:63-64  PyScriptWorker(file, options) is called through the export of
\* load site L and runs to its `await`. The function is the one of the copy that
\* owns the export, closed over that copy's `hooked` and `configs`.
SpawnCall(s, L, T) ==
    /\ spawn[s].pc = "idle"
    /\ L \in loaded
    /\ spawn' = [spawn EXCEPT ![s] =
           [IdleSpawn EXCEPT !.pc = "awaiting", !.type = T,
                             !.owner = exported[L][WorkerExport(T)]]]
    /\ UNCHANGED <<slot, loaded, alreadyLive, exported, error, pluginsCalls,
                   bootstrap, hooked, defined, registered, configWrites, loadOrder>>
    /\ UNCHANGED unitVars

\* core.js:64  `await configs.get(TYPE).plugins`. The awaited value is the
\* `plugins` member itself, which core.js:120 and core.js:189 use as a function
\* (`plugins().then(...)`): it is no thenable, so the await resumes on the next
\* microtask whatever the state of the promise that plugins() returned.
PluginsAwaited(owner, T) == TRUE

\* core.js:65-74  the continuation after the await: the worker is constructed
\* with the hook table `hooked.get(TYPE)` of the owning copy, `undefined` when
\* the key is not there yet.
SpawnResume(s) ==
    /\ spawn[s].pc = "awaiting"
    /\ PluginsAwaited(spawn[s].owner, spawn[s].type)
    /\ spawn' = [spawn EXCEPT ![s].pc = "constructed",
                              ![s].onerror = FacadeOnerror,
                              ![s].hooks = IF spawn[s].type \in hooked[spawn[s].owner]
                                           THEN "table" ELSE "undefined"]
    /\ UNCHANGED <<slot, loaded, alreadyLive, exported, error, pluginsCalls,
                   bootstrap, hooked, defined, registered, configWrites, loadOrder>>
    /\ UNCHANGED unitVars

\* an `error` event on a worker: the worker's `onerror`, when one is set to
\* `({ error }) => io.stderr(error)`, reports it; with none set nothing does
Reports(handler) == IF handler = "stderr" THEN 1 ELSE 0

\* a worker made by the facade raises an error event
WorkerError(s) ==
    /\ spawn[s].pc = "constructed"
    /\ spawn[s].raised = 0
    /\ spawn' = [spawn EXCEPT ![s].raised = 1,
                              ![s].reported = @ + Reports(spawn[s].onerror)]
    /\ UNCHANGED <<slot, loaded, alreadyLive, exported, error, pluginsCalls,
                   bootstrap, hooked, defined, registered, configWrites, loadOrder>>
    /\ UNCHANGED unitVars

\* ------------------------------------------------------ the unit's helpers

\* core.js:51  isScript
isScript(u) == elem[u].tag = "SCRIPT"

\* polyscript isSync(element): the sync-vs-async marker attribute
isSync(u) == elem[u].sync

TypeOf(u) == elem[u].type

Ev(kind, arg) == <<kind, arg>>
Logged(u, evs) == [log EXCEPT ![u] = @ \o evs]

\* core.js:124  getID(): `${TYPE}-${id++}`
getID(T) == <<T, id[T]>>

\* ---- the element's content and the conversions fetchSource applies to it

\* tag.textContent, tag.innerHTML and the text of the fetched file
textContent(u) == [lines |-> dom[u].text, form |-> "text"]
innerHTML(u) == [lines |-> dom[u].text, form |-> "markup"]
getText(u) == [lines |-> dom[u].remote, form |-> "file"]

\* polyscript `unescape`: the markup's character references are decoded
unescape(s) == [s EXCEPT !.form = IF @ = "markup" THEN "unescaped" ELSE @]

\* the columns of leading whitespace shared by the non-blank lines
CommonIndent(lines) ==
    LET code == {i \in DOMAIN lines : ~lines[i].blank}
    IN IF code = {} THEN 0
       ELSE CHOOSE n \in {lines[i].indent : i \in code} :
                \A i \in code : n <= lines[i].indent

\* polyscript `dedent`: the shared leading whitespace is removed from each line
dedent(s) ==
    [s EXCEPT !.lines =
        [i \in DOMAIN @ |->
            IF @[i].blank THEN @[i]
            ELSE [@[i] EXCEPT !.indent = @ - CommonIndent(s.lines)]]]

NoSource == [path |-> "none", code |-> [lines |-> <<>>, form |-> "none"]]

\* core.js:241, 351  the `asText` argument: always true for a script, true for a
\* custom element exactly when it has no child element
asText(u) == IF isScript(u) THEN TRUE ELSE ~dom[u].children

\* core.js:140-147  fetchSource past its `src` branch: the inline content
DedentNever(u, safe) ==
    IF safe THEN [path |-> "text", code |-> textContent(u)]
    ELSE [path |-> "markup", code |-> unescape(innerHTML(u))]
InlineSource(u, safe) ==
    IF safe THEN [path |-> "text", code |-> dedent(textContent(u))]
    ELSE [path |-> "markup", code |-> dedent(unescape(innerHTML(u)))]

\* core.js:143-146  console.warn on the markup path only
WarnAlways(safe) == <<Ev("warn", "deprecated")>>
Warning(safe) == IF safe THEN <<>> ELSE <<Ev("warn", "deprecated")>>

\* core.js:134  `return await fetch(...).then(getText)`: the text as fetched
FetchedSource(u) == [path |-> "fetched", code |-> getText(u)]

\* core.js:156-181  registerModule(wrap): the `_pyscript` module is registered
\* once per flavor, with the io of the wrap it was first called with
registerEveryTime(u) ==
    /\ alreadyRegistered' = [alreadyRegistered EXCEPT ![TypeOf(u)] = TRUE]
    /\ jsModule' = [jsModule EXCEPT ![TypeOf(u)] = Append(@, u)]
registerModule(u) ==
    IF alreadyRegistered[TypeOf(u)]
    THEN UNCHANGED <<alreadyRegistered, jsModule>>
    ELSE /\ alreadyRegistered' = [alreadyRegistered EXCEPT ![TypeOf(u)] = TRUE]
         /\ jsModule' = [jsModule EXCEPT ![TypeOf(u)] = Append(@, u)]

\* core.js:131-138  fetchSource up to its first suspension: with a `src`
\* attribute the fetch is started and awaited; without one the inline content
\* is the source at once (core.js:140-147)
FetchStartPc(u) == IF elem[u].src THEN "fetching" ELSE "source"
FetchStartEvents(u) ==
    IF elem[u].src THEN <<Ev("fetch", "src")>>
    ELSE Warning(asText(u)) \o <<Ev("source", "inline")>>
FetchStartCode(u) == IF elem[u].src THEN "" ELSE "inline"
FetchStartSource(u) == IF elem[u].src THEN NoSource ELSE InlineSource(u, asText(u))

\* core.js:236-241  a script's "ready" is dispatched, then fetchSource is called
FetchThenReady(u) == FetchStartEvents(u) \o <<Ev("ready", "")>>
ReadyThenFetch(u) == <<Ev("ready", "")>> \o FetchStartEvents(u)

\* core.js:207  `errors.has(element)`
PendingErrorNever(u) == FALSE
PendingError(u) == errors[u] # NoError

NoShow == [element |-> "none", place |-> "none", isTarget |-> FALSE]

\* core.js:219-222  `show`: the element queryTarget finds for a non-empty
\* `target` attribute (null when nothing matches), a new element otherwise
ShowElement(u) ==
    IF dom[u].target = "" THEN "created"
    ELSE IF dom[u].target = "unknown" THEN "null" ELSE "found"

\* core.js:224-228  a new element goes to the end of the body when the unit is
\* in the head, right after the unit otherwise; a found one stays where it is
Place(u) ==
    IF dom[u].target # "" THEN "none"
    ELSE IF dom[u].inHead THEN "bodyEnd" ELSE "afterUnit"

\* core.js:229  `show.id` as the checkpoint finds it: the id of the element
\* found by id, empty for a new element and for one found by a selector
ShowId(u) == IF dom[u].target = "id" THEN <<"document", u>> ELSE NoId

\* core.js:207-247  onReady from its ledger check to its next suspension
\* point, `lg` being the unit's log so far.
\*   - a pending error is consumed and reported, and onReady returns;
\*   - a script gets its display target and id, "ready" is dispatched and
\*     fetchSource is called (core.js:241); when queryTarget found nothing,
\*     `show.id` (core.js:229) throws and onReady rejects;
\*   - a custom element gets its wrap promise resolved.
Checkpoint(u, lg) ==
    IF PendingError(u)
    THEN /\ errors' = [errors EXCEPT ![u] = NoError]
         /\ log' = [log EXCEPT ![u] =
                lg \o <<Ev("stderr", IF errors[u] = "INVALID_CONTENT"
                                     THEN "CONFLICTING_CODE deep"
                                     ELSE "CONFLICTING_CODE shallow")>>]
         /\ onReadyPc' = [onReadyPc EXCEPT ![u] = "bailed"]
         /\ UNCHANGED <<id, ids, bodyPc, wrapResolved, srcCode, show, resolved>>
    ELSE IF isScript(u) /\ ShowElement(u) = "null"
    THEN /\ show' = [show EXCEPT ![u] =
                [element |-> "null", place |-> Place(u), isTarget |-> FALSE]]
         /\ log' = [log EXCEPT ![u] = lg \o <<Ev("TypeError", "show.id")>>]
         /\ onReadyPc' = [onReadyPc EXCEPT ![u] = "threw"]
         /\ UNCHANGED <<errors, id, ids, bodyPc, wrapResolved, srcCode, resolved>>
    ELSE IF isScript(u)
    THEN /\ show' = [show EXCEPT ![u] =
                [element |-> ShowElement(u), place |-> Place(u), isTarget |-> TRUE]]
         /\ IF ShowId(u) = NoId
            THEN /\ ids' = [ids EXCEPT ![u] = getID(TypeOf(u))]
                 /\ id' = [id EXCEPT ![TypeOf(u)] = @ + 1]
            ELSE /\ ids' = [ids EXCEPT ![u] = ShowId(u)]
                 /\ UNCHANGED id
         /\ log' = [log EXCEPT ![u] =
                lg \o <<Ev("defineProperty", "target")>> \o ReadyThenFetch(u)]
         /\ onReadyPc' = [onReadyPc EXCEPT ![u] = "passed"]
         /\ bodyPc' = [bodyPc EXCEPT ![u] = FetchStartPc(u)]
         /\ srcCode' = [srcCode EXCEPT ![u] = FetchStartCode(u)]
         /\ resolved' = [resolved EXCEPT ![u] = FetchStartSource(u)]
         /\ UNCHANGED <<errors, wrapResolved>>
    ELSE /\ wrapResolved' = [wrapResolved EXCEPT ![u] = TRUE]
         /\ log' = [log EXCEPT ![u] = lg \o <<Ev("resolve", "")>>]
         /\ onReadyPc' = [onReadyPc EXCEPT ![u] = "passed"]
         /\ UNCHANGED <<errors, id, ids, bodyPc, srcCode, show, resolved>>

\* ---------------------------------------------------- hooks.main.onReady

\* core.js:197-203  the runtime calls onReady(wrap, element): the module is
\* registered, then the plugin callbacks are awaited one by one; with none
\* registered the handler goes on to its ledger check without suspending.
OnReadyCall(u) ==
    /\ onReadyPc[u] = "idle"
    /\ defined[TypeOf(u)] > 0
    /\ registerModule(u)
    /\ IF Len(mainHooks.onReady) > 0
       THEN /\ log' = Logged(u, <<Ev("onReady", ""), Ev("call", mainHooks.onReady[1])>>)
            /\ onReadyPc' = [onReadyPc EXCEPT ![u] = "hook"]
            /\ hookIdx' = [hookIdx EXCEPT ![u] = 1]
            /\ UNCHANGED <<errors, id, ids, bodyPc, wrapResolved, srcCode, show, resolved>>
       ELSE /\ Checkpoint(u, log[u] \o <<Ev("onReady", "")>>)
            /\ UNCHANGED hookIdx
    /\ UNCHANGED <<elem, mainHooks, currentElement, executed, connects,
                   exec, targetSeen>>
    /\ UNCHANGED <<xworker, errBefore, dom, pyWorker, moduleVars>>

\* core.js:202-203  what follows the awaited callback `i` when it has settled
\* well: the next callback of the list, if any
NextHookSkips(i) == i + 2
NextHook(i) == i + 1

\* core.js:203  `await callback(wrap, element)` resumes: the awaited callback
\* has fulfilled, and the next one is called or the loop ends
HookFulfilled(u) ==
    /\ onReadyPc[u] = "hook"
    /\ LET settled == Ev("settled", mainHooks.onReady[hookIdx[u]])
           next == NextHook(hookIdx[u])
       IN IF next <= Len(mainHooks.onReady)
          THEN /\ log' = Logged(u, <<settled, Ev("call", mainHooks.onReady[next])>>)
               /\ hookIdx' = [hookIdx EXCEPT ![u] = next]
               /\ UNCHANGED <<errors, id, ids, onReadyPc, bodyPc, wrapResolved, srcCode,
                              show, resolved>>
          ELSE /\ Checkpoint(u, log[u] \o <<settled>>)
               /\ UNCHANGED hookIdx
    /\ UNCHANGED <<elem, mainHooks, alreadyRegistered, jsModule,
                   currentElement, executed, connects, exec, targetSeen>>
    /\ UNCHANGED <<xworker, errBefore, dom, pyWorker, moduleVars>>

\* core.js:203  the awaited callback threw or rejected: onReady rejects
HookRejectionSwallowed(u) ==
    /\ onReadyPc[u] = "hook"
    /\ Checkpoint(u, log[u] \o <<Ev("rejected", mainHooks.onReady[hookIdx[u]])>>)
    /\ UNCHANGED <<elem, mainHooks, alreadyRegistered, jsModule, hookIdx,
                   currentElement, executed, connects, exec, targetSeen>>
    /\ UNCHANGED <<xworker, errBefore, dom, pyWorker, moduleVars>>
HookRejected(u) ==
    /\ onReadyPc[u] = "hook"
    /\ log' = Logged(u, <<Ev("rejected", mainHooks.onReady[hookIdx[u]])>>)
    /\ onReadyPc' = [onReadyPc EXCEPT ![u] = "rejected"]
    /\ UNCHANGED <<elem, mainHooks, errors, alreadyRegistered, jsModule,
                   currentElement, id, ids, hookIdx, bodyPc, executed, connects,
                   wrapResolved, srcCode, exec, targetSeen>>
    /\ UNCHANGED <<xworker, errBefore, dom, show, resolved, pyWorker, moduleVars>>

\* core.js:321-323  the runtime reports an error for the element
onerror(u, message) ==
    /\ errors[u] # message
    /\ defined[TypeOf(u)] > 0
    /\ errors' = [errors EXCEPT ![u] = message]
    /\ errBefore' = [errBefore EXCEPT ![u] = @ \/ onReadyPc[u] \in {"idle", "hook"}]
    /\ UNCHANGED <<elem, mainHooks, alreadyRegistered, jsModule, currentElement, id, ids,
                   onReadyPc, hookIdx, bodyPc, executed, connects, wrapResolved,
                   srcCode, exec, targetSeen, log>>
    /\ UNCHANGED <<xworker, dom, show, resolved, pyWorker, moduleVars>>

\* --------------------------------------------------- hooks.main.onWorker

NoWorker == [state |-> "none", sync |-> FALSE, calls |-> <<>>, steps |-> <<>>]
NoPyWorker == [state |-> "none", type |-> "py", io |-> NoUnit, stderr |-> 0]

\* core.js:252-253  the callbacks onWorker calls when callback `k` throws
\* (k = 0: none throws): the list in order, up to the one that throws
CalledReversed(list, k) ==
    [i \in 1..(IF k = 0 THEN Len(list) ELSE k) |-> list[Len(list) + 1 - i]]
Called(list, k) ==
    SubSeq(list, 1, IF k = 0 THEN Len(list) ELSE k)

\* core.js:251-253  what onWorker does, in order: `assign(xworker.sync, sync)`,
\* then the plugin callbacks
PluginsThenSync(list, k) == Called(list, k) \o <<"sync">>
WorkerSteps(list, k) == <<"sync">> \o Called(list, k)

\* core.js:250-254  the runtime calls onWorker(_, xworker): the sync object is
\* assigned, then every plugin callback is called in turn, synchronously
onWorker(w, k) ==
    /\ xworker[w].state = "none"
    /\ k \in 0..Len(mainHooks.onWorker)
    /\ xworker' = [xworker EXCEPT ![w] =
           [state |-> IF k = 0 THEN "returned" ELSE "threw",
            sync |-> TRUE,
            calls |-> Called(mainHooks.onWorker, k),
            steps |-> WorkerSteps(mainHooks.onWorker, k)]]
    /\ UNCHANGED <<elem, mainHooks, errors, alreadyRegistered, jsModule,
                   currentElement, id, ids, onReadyPc, hookIdx, bodyPc, executed,
                   connects, wrapResolved, srcCode, exec, targetSeen, errBefore, log>>
    /\ UNCHANGED <<dom, show, resolved, pyWorker, moduleVars>>

\* core.js:163-167  the code of a unit calls the PyWorker of the injected
\* module of flavor T: the worker is made and its `onerror` set to report to the
\* io.stderr that registerModule captured
PyWorkerCall(w, T) ==
    /\ pyWorker[w].state = "none"
    /\ jsModule[T] # <<>>
    /\ pyWorker' = [pyWorker EXCEPT ![w] =
           [state |-> "created", type |-> T, io |-> jsModule[T][1], stderr |-> 0]]
    /\ UNCHANGED <<elem, mainHooks, errors, alreadyRegistered, jsModule,
                   currentElement, id, ids, onReadyPc, hookIdx, bodyPc, executed,
                   connects, wrapResolved, srcCode, exec, targetSeen, errBefore, log>>
    /\ UNCHANGED <<xworker, dom, show, resolved, moduleVars>>

\* core.js:165  a worker made by the injected PyWorker raises an error event
PyWorkerError(w) ==
    /\ pyWorker[w].state = "created"
    /\ pyWorker' = [pyWorker EXCEPT ![w].state = "errored",
                                    ![w].stderr = @ + Reports("stderr")]
    /\ UNCHANGED <<elem, mainHooks, errors, alreadyRegistered, jsModule,
                   currentElement, id, ids, onReadyPc, hookIdx, bodyPc, executed,
                   connects, wrapResolved, srcCode, exec, targetSeen, errBefore, log>>
    /\ UNCHANGED <<xworker, dom, show, resolved, moduleVars>>

\* core.js:190  "possible early errors sent by polyscript": the runtime
\* reports its errors for an element before the element's onReady has reached
\* its ledger check
EarlyError(u, message) ==
    /\ onReadyPc[u] \in {"idle", "hook"}
    /\ onerror(u, message)

\* ------------------------------------------------------ connectedCallback

\* core.js:343  `if (!this.executed)`
ExecutedIgnored(u) == TRUE
NotExecuted(u) == ~executed[u]

\* core.js:342-347  connectedCallback up to `await this._wrap.promise`; a call
\* that finds `executed` set does nothing
connectedCallback(u) ==
    /\ ~isScript(u)
    /\ registered[TypeOf(u)] > 0
    /\ connects[u] < MaxConnects
    /\ connects' = [connects EXCEPT ![u] = @ + 1]
    /\ IF NotExecuted(u)
       THEN /\ executed' = [executed EXCEPT ![u] = TRUE]
            /\ bodyPc' = [bodyPc EXCEPT ![u] = "awaitWrap"]
            /\ log' = Logged(u, <<Ev("connected", "")>>)
       ELSE UNCHANGED <<executed, bodyPc, log>>
    /\ UNCHANGED <<elem, mainHooks, errors, alreadyRegistered, jsModule,
                   currentElement, id, ids, onReadyPc, hookIdx, wrapResolved, srcCode,
                   exec, targetSeen>>
    /\ UNCHANGED <<xworker, errBefore, dom, show, resolved, pyWorker, moduleVars>>

\* core.js:342  the element is attached to the document for the first time
FirstConnected(u) ==
    /\ connects[u] = 0
    /\ connectedCallback(u)

\* core.js:346-352  the wrap promise is resolved and connectedCallback resumes:
\* fetchSource is called
WrapResumed(u) ==
    /\ bodyPc[u] = "awaitWrap"
    /\ wrapResolved[u]
    /\ bodyPc' = [bodyPc EXCEPT ![u] = FetchStartPc(u)]
    /\ srcCode' = [srcCode EXCEPT ![u] = FetchStartCode(u)]
    /\ log' = Logged(u, FetchStartEvents(u))
    /\ resolved' = [resolved EXCEPT ![u] = FetchStartSource(u)]
    /\ UNCHANGED <<elem, mainHooks, errors, alreadyRegistered, jsModule,
                   currentElement, id, ids, onReadyPc, hookIdx, executed, connects,
                   wrapResolved, exec, targetSeen>>
    /\ UNCHANGED <<xworker, errBefore, dom, show, pyWorker, moduleVars>>

\* ------------------------------------------------------------ fetchSource

\* core.js:134  the fetch of `src` succeeds: its text is the source
FetchFulfilled(u) ==
    /\ bodyPc[u] = "fetching"
    /\ bodyPc' = [bodyPc EXCEPT ![u] = "source"]
    /\ srcCode' = [srcCode EXCEPT ![u] = "fetched"]
    /\ log' = Logged(u, <<Ev("source", "fetched")>>)
    /\ resolved' = [resolved EXCEPT ![u] = FetchedSource(u)]
    /\ UNCHANGED <<elem, mainHooks, errors, alreadyRegistered, jsModule,
                   currentElement, id, ids, onReadyPc, hookIdx, executed, connects,
                   wrapResolved, exec, targetSeen>>
    /\ UNCHANGED <<xworker, errBefore, dom, show, pyWorker, moduleVars>>

\* core.js:135-147  the fetch fails: the error goes to io.stderr and the inline
\* content is the source
FetchRejected(u) ==
    /\ bodyPc[u] = "fetching"
    /\ bodyPc' = [bodyPc EXCEPT ![u] = "source"]
    /\ srcCode' = [srcCode EXCEPT ![u] = "inline"]
    /\ log' = Logged(u, <<Ev("stderr", "fetch")>> \o Warning(asText(u))
                        \o <<Ev("source", "inline")>>)
    /\ resolved' = [resolved EXCEPT ![u] = InlineSource(u, asText(u))]
    /\ UNCHANGED <<elem, mainHooks, errors, alreadyRegistered, jsModule,
                   currentElement, id, ids, onReadyPc, hookIdx, executed, connects,
                   wrapResolved, exec, targetSeen>>
    /\ UNCHANGED <<xworker, errBefore, dom, show, pyWorker, moduleVars>>

\* ------------------------------------------------------- run and runAsync

\* core.js:175-179  the `target` getter of the injected module of flavor T:
\* the id of the current element's target for a script, the current element's
\* own id otherwise
TargetOwner(T) == currentElement[T]

\* core.js:336-338  the element's `id` getter gives it an id when it has none
TargetValue(c, T) == IF ids[c] = NoId THEN getID(T) ELSE ids[c]

\* core.js:115-118  dispatchDone: "done" follows a run that returned and a
\* runAsync promise that fulfilled
DispatchesDone(outcome) == outcome \in {"returned", "fulfilled"}
DoneEvents(outcome) == IF DispatchesDone(outcome) THEN <<Ev("done", "")>> ELSE <<>>

\* core.js:255-272  what onBeforeRun / onBeforeRunAsync do, in order: the
\* current element is set, then bootstrapNodeAndPlugins invokes the plugin
\* callbacks registered under that name
PluginsThenCurrent(name) == <<Ev("plugins", name), Ev("currentElement", name)>>
BeforeRun(name) == <<Ev("currentElement", name), Ev("plugins", name)>>

\* core.js:353-355  what connectedCallback does between the source and the run
BeforeRunEvents(u) ==
    IF isScript(u) THEN <<>> ELSE <<Ev("replaceChildren", ""), Ev("ready", "")>>

\* core.js:237-243, 356-360  the source is there and the handler resumes, for a
\* sync unit: run(source) is called, the runtime calls onBeforeRun (core.js:
\* 255-263), the code runs (and may read `target`), and run returns or throws;
\* "done" is dispatched when it returned.
RunSync(u, outcome, reads) ==
    /\ bodyPc[u] = "source"
    /\ isSync(u)
    /\ currentElement' = [currentElement EXCEPT ![TypeOf(u)] = u]
    /\ IF reads
       THEN /\ targetSeen' = [targetSeen EXCEPT ![u] = @ \cup {TargetValue(u, TypeOf(u))}]
            /\ IF ids[u] = NoId
               THEN /\ ids' = [ids EXCEPT ![u] = getID(TypeOf(u))]
                    /\ id' = [id EXCEPT ![TypeOf(u)] = @ + 1]
               ELSE UNCHANGED <<id, ids>>
       ELSE UNCHANGED <<targetSeen, id, ids>>
    /\ log' = Logged(u, BeforeRunEvents(u)
                        \o <<Ev("run", srcCode[u])>> \o BeforeRun("onBeforeRun")
                        \o <<Ev(outcome, "")>> \o DoneEvents(outcome))
    /\ bodyPc' = [bodyPc EXCEPT ![u] = outcome]
    /\ UNCHANGED <<elem, mainHooks, errors, alreadyRegistered, jsModule,
                   onReadyPc, hookIdx, executed, connects, wrapResolved, srcCode, exec>>
    /\ UNCHANGED <<xworker, errBefore, dom, show, resolved, pyWorker, moduleVars>>

\* core.js:237-243, 356-360  the same for an async unit: runAsync(source) is
\* called and its promise handed to dispatchDone; the handler returns
RunAsyncCall(u) ==
    /\ bodyPc[u] = "source"
    /\ ~isSync(u)
    /\ log' = Logged(u, BeforeRunEvents(u) \o <<Ev("run", srcCode[u])>>)
    /\ exec' = [exec EXCEPT ![u] = "pending"]
    /\ bodyPc' = [bodyPc EXCEPT ![u] = "returned"]
    /\ UNCHANGED <<elem, mainHooks, errors, alreadyRegistered, jsModule,
                   currentElement, id, ids, onReadyPc, hookIdx, executed, connects,
                   wrapResolved, srcCode, targetSeen>>
    /\ UNCHANGED <<xworker, errBefore, dom, show, resolved, pyWorker, moduleVars>>

\* core.js:264-272  the runtime calls onBeforeRunAsync(wrap, element) before
\* it runs the code of a runAsync call
onBeforeRunAsync(u) ==
    /\ exec[u] = "pending"
    /\ currentElement' = [currentElement EXCEPT ![TypeOf(u)] = u]
    /\ exec' = [exec EXCEPT ![u] = "executing"]
    /\ log' = Logged(u, BeforeRun("onBeforeRunAsync"))
    /\ UNCHANGED <<elem, mainHooks, errors, alreadyRegistered, jsModule,
                   id, ids, onReadyPc, hookIdx, bodyPc, executed, connects,
                   wrapResolved, srcCode, targetSeen>>
    /\ UNCHANGED <<xworker, errBefore, dom, show, resolved, pyWorker, moduleVars>>

\* core.js:175-179  the code of an executing async unit reads `target`
ReadTarget(u) ==
    /\ exec[u] = "executing"
    /\ LET T == TypeOf(u)
           c == TargetOwner(T)
       IN /\ TargetValue(c, T) \notin targetSeen[u]
          /\ targetSeen' = [targetSeen EXCEPT ![u] = @ \cup {TargetValue(c, T)}]
          /\ IF ids[c] = NoId
             THEN /\ ids' = [ids EXCEPT ![c] = getID(T)]
                  /\ id' = [id EXCEPT ![T] = @ + 1]
             ELSE UNCHANGED <<id, ids>>
    /\ UNCHANGED <<elem, mainHooks, errors, alreadyRegistered, jsModule,
                   currentElement, onReadyPc, hookIdx, bodyPc, executed, connects,
                   wrapResolved, srcCode, exec, log>>
    /\ UNCHANGED <<xworker, errBefore, dom, show, resolved, pyWorker, moduleVars>>

\* core.js:116  the runAsync promise settles; its `then` callback dispatches
\* "done" when it fulfilled
RunAsyncSettled(u, outcome) ==
    /\ exec[u] = "executing"
    /\ exec' = [exec EXCEPT ![u] = outcome]
    /\ log' = Logged(u, <<Ev(outcome, "")>> \o DoneEvents(outcome))
    /\ UNCHANGED <<elem, mainHooks, errors, alreadyRegistered, jsModule,
                   currentElement, id, ids, onReadyPc, hookIdx, bodyPc, executed,
                   connects, wrapResolved, srcCode, targetSeen>>
    /\ UNCHANGED <<xworker, errBefore, dom, show, resolved, pyWorker, moduleVars>>

\* ------------------------------------------------------------------- Spec

\* the page after the first copy of the module has loaded and both flavors
\* have bootstrapped
Bootstrapped ==
    /\ slot = 1
    /\ loaded = {1}
    /\ alreadyLive = [L \in Loads |-> FALSE]
    /\ exported = [L \in Loads |-> [n \in ExportNames |-> IF L = 1 THEN 1 ELSE NoLoad]]
    /\ error = [T \in TypeSet |-> FALSE]
    /\ pluginsCalls = [L \in Loads |-> [T \in TypeSet |-> IF L = 1 THEN 1 ELSE 0]]
    /\ bootstrap = [L \in Loads |-> [T \in TypeSet |-> IF L = 1 THEN "fulfilled" ELSE "none"]]
    /\ hooked = [L \in Loads |-> IF L = 1 THEN TypeSet ELSE {}]
    /\ defined = [T \in TypeSet |-> 1]
    /\ registered = [T \in TypeSet |-> 1]
    /\ configWrites = [L \in Loads |-> IF L = 1 THEN TypeSet ELSE {}]
    /\ spawn = [s \in Spawns |-> IdleSpawn]
    /\ loadOrder = <<1>>

Elements(tags, syncs, srcs, types) ==
    [tag : tags, sync : syncs, src : srcs, type : types]

\* an element the runtime is not asked to drive
Bystander == [tag |-> "SCRIPT", sync |-> TRUE, src |-> FALSE, type |-> "py"]

\* the units as the page declares them, before the runtime has touched them:
\* the units of `driven` are any of `elements`, and the plugins have registered
\* one of `registrations` for each main-thread event
UnitsInit(driven, elements, registrations) ==
    /\ \E d \in [driven -> elements] :
          elem = [u \in Units |-> IF u \in driven THEN d[u] ELSE Bystander]
    /\ mainHooks \in [onReady : registrations, onWorker : registrations]
    /\ errors = [u \in Units |-> NoError]
    /\ alreadyRegistered = [T \in TypeSet |-> FALSE]
    /\ jsModule = [T \in TypeSet |-> <<>>]
    /\ currentElement = [T \in TypeSet |-> NoUnit]
    /\ id = [T \in TypeSet |-> 0]
    /\ ids = [u \in Units |-> NoId]
    /\ onReadyPc = [u \in Units |-> "idle"]
    /\ hookIdx = [u \in Units |-> 0]
    /\ bodyPc = [u \in Units |-> "none"]
    /\ executed = [u \in Units |-> FALSE]
    /\ connects = [u \in Units |-> 0]
    /\ wrapResolved = [u \in Units |-> FALSE]
    /\ srcCode = [u \in Units |-> ""]
    /\ exec = [u \in Units |-> "none"]
    /\ targetSeen = [u \in Units |-> {}]
    /\ xworker = [w \in Workers |-> NoWorker]
    /\ errBefore = [u \in Units |-> FALSE]
    /\ log = [u \in Units |-> <<>>]
    /\ show = [u \in Units |-> NoShow]
    /\ resolved = [u \in Units |-> NoSource]
    /\ pyWorker = [w \in Workers |-> NoPyWorker]

\* an element in the body, with no `target` attribute, no child element and
\* no content
PlainElement ==
    [target |-> "", inHead |-> FALSE, children |-> FALSE, text |-> <<>>, remote |-> <<>>]
PlainDom == dom = [u \in Units |-> PlainElement]

\* Spec: the life of the units of one flavor, scripts and custom elements,
\* with no plugin callback or one registered for onReady
Init ==
    /\ Bootstrapped
    /\ UnitsInit(Driven, Elements({"SCRIPT", "PY-SCRIPT"}, BOOLEAN, BOOLEAN, {"py"}),
                 {<<>>, <<"A">>})
    /\ mainHooks.onWorker = <<>>
    /\ PlainDom

Next ==
    \/ \E u \in Driven : OnReadyCall(u)
    \/ \E u \in Driven : HookFulfilled(u)
    \/ \E u \in Driven : HookRejected(u)
    \/ \E u \in Driven, m \in ErrorMessages : EarlyError(u, m)
    \/ \E u \in Driven : connectedCallback(u)
    \/ \E u \in Driven : WrapResumed(u)
    \/ \E u \in Driven : FetchFulfilled(u)
    \/ \E u \in Driven : FetchRejected(u)
    \/ \E u \in Driven, o \in {"returned", "threw"} : RunSync(u, o, FALSE)
    \/ \E u \in Driven : RunAsyncCall(u)
    \/ \E u \in Driven : onBeforeRunAsync(u)
    \/ \E u \in Driven, o \in {"fulfilled", "rejected"} : RunAsyncSettled(u, o)

Spec == Init /\ [][Next]_vars

\* SpecTarget: units of both flavors with inline source whose code reads the
\* injected module's `target`
TargetInit ==
    /\ Bootstrapped
    /\ UnitsInit(Units, Elements({"SCRIPT", "PY-SCRIPT"}, BOOLEAN, {FALSE}, TypeSet), {<<>>})
    /\ PlainDom

TargetNext ==
    \/ \E u \in Units : OnReadyCall(u)
    \/ \E u \in Units : connectedCallback(u)
    \/ \E u \in Units : WrapResumed(u)
    \/ \E u \in Units, o \in {"returned", "threw"}, r \in BOOLEAN : RunSync(u, o, r)
    \/ \E u \in Units : RunAsyncCall(u)
    \/ \E u \in Units : onBeforeRunAsync(u)
    \/ \E u \in Units : ReadTarget(u)
    \/ \E u \in Units, o \in {"fulfilled", "rejected"} : RunAsyncSettled(u, o)

SpecTarget == TargetInit /\ [][TargetNext]_vars

\* SpecHooks: the plugin callbacks of the main-thread checkpoints onReady and
\* onWorker, for every registration of up to MaxHooks callbacks
HooksInit ==
    /\ Bootstrapped
    /\ UnitsInit(Driven, Elements({"SCRIPT", "PY-SCRIPT"}, {TRUE}, {FALSE}, {"py"}),
                 Registrations)
    /\ mainHooks.onWorker = mainHooks.onReady
    /\ PlainDom

HooksNext ==
    \/ \E u \in Driven : OnReadyCall(u)
    \/ \E u \in Driven : HookFulfilled(u)
    \/ \E u \in Driven : HookRejected(u)
    \/ \E u \in Driven, m \in ErrorMessages : EarlyError(u, m)
    \/ \E w \in Workers, k \in 0..MaxHooks : onWorker(w, k)

SpecHooks == HooksInit /\ [][HooksNext]_vars

\* SpecCheckpoints: the main-thread checkpoints around one execution, onReady
\* with its plugin callbacks fulfilling or rejecting, onWorker, and the run with
\* its onBeforeRun / onBeforeRunAsync, with up to MaxHooks callbacks registered
CheckpointsInit ==
    /\ Bootstrapped
    /\ UnitsInit(Driven, Elements({"SCRIPT", "PY-SCRIPT"}, BOOLEAN, {FALSE}, {"py"}),
                 Chains)
    /\ mainHooks.onWorker = mainHooks.onReady
    /\ PlainDom

CheckpointsNext ==
    \/ \E u \in Driven : OnReadyCall(u)
    \/ \E u \in Driven : HookFulfilled(u)
    \/ \E u \in Driven : HookRejected(u)
    \/ \E u \in Driven : FirstConnected(u)
    \/ \E u \in Driven : WrapResumed(u)
    \/ \E u \in Driven, o \in {"returned", "threw"} : RunSync(u, o, FALSE)
    \/ \E u \in Driven : RunAsyncCall(u)
    \/ \E u \in Driven : onBeforeRunAsync(u)
    \/ \E u \in Driven, o \in {"fulfilled", "rejected"} : RunAsyncSettled(u, o)
    \/ \E w \in Workers : onWorker(w, 0)

SpecCheckpoints == CheckpointsInit /\ [][CheckpointsNext]_vars

\* SpecWorkers: the workers made through the exported facade and through the
\* PyWorker of the injected module, and the error events they raise
WorkersInit ==
    /\ Bootstrapped
    /\ UnitsInit(Units, Elements({"SCRIPT"}, {TRUE}, {FALSE}, TypeSet), {<<>>})
    /\ PlainDom

WorkersNext ==
    \/ \E u \in Units : OnReadyCall(u)
    \/ \E s \in Spawns, L \in Loads, T \in TypeSet : SpawnCall(s, L, T)
    \/ \E s \in Spawns : SpawnResume(s)
    \/ \E s \in Spawns : WorkerError(s)
    \/ \E w \in Workers, T \in TypeSet : PyWorkerCall(w, T)
    \/ \E w \in Workers : PyWorkerError(w)

SpecWorkers == WorkersInit /\ [][WorkersNext]_vars

\* SpecShow: the display element of scripts in the head or the body, with and
\* without a `target` attribute, with and without an early error
ShowInit ==
    /\ Bootstrapped
    /\ UnitsInit(Units, Elements({"SCRIPT"}, {TRUE}, {FALSE}, {"py"}), {<<>>})
    /\ dom \in [Units -> [target : TargetAttributes, inHead : BOOLEAN,
                           children : {FALSE}, text : {<<>>}, remote : {<<>>}]]

ShowNext ==
    \/ \E u \in Units : OnReadyCall(u)
    \/ \E u \in Units, m \in ErrorMessages : EarlyError(u, m)
    \/ \E u \in Units, o \in {"returned", "threw"} : RunSync(u, o, FALSE)

SpecShow == ShowInit /\ [][ShowNext]_vars

\* SpecSource: the source fetchSource returns for one unit, a script or a custom
\* element, over every inline text and fetched text within the bounds
Subject == CHOOSE u \in Units : \A v \in Units : u <= v

SourceInit ==
    /\ Bootstrapped
    /\ UnitsInit({Subject}, Elements({"SCRIPT", "PY-SCRIPT"}, {TRUE}, BOOLEAN, {"py"}),
                 {<<>>})
    /\ \E children \in IF isScript(Subject) THEN {FALSE} ELSE BOOLEAN,
          text \in Texts,
          remote \in IF elem[Subject].src THEN Texts ELSE {<<>>} :
          dom = [u \in Units |->
                    IF u = Subject
                    THEN [PlainElement EXCEPT !.children = children, !.text = text,
                                              !.remote = remote]
                    ELSE PlainElement]

SourceNext ==
    \/ OnReadyCall(Subject)
    \/ connectedCallback(Subject)
    \/ WrapResumed(Subject)
    \/ FetchFulfilled(Subject)
    \/ FetchRejected(Subject)

SpecSource == SourceInit /\ [][SourceNext]_vars

\* SpecRegister: the onReady calls of every unit of the page, of both flavors,
\* interleaved at the awaits of their plugin callbacks, and the workers the
\* units' code makes with the injected PyWorker
RegisterInit ==
    /\ Bootstrapped
    /\ UnitsInit(Units, Elements({"SCRIPT", "PY-SCRIPT"}, {TRUE}, {FALSE}, TypeSet),
                 Chains)
    /\ mainHooks.onWorker = <<>>
    /\ PlainDom

RegisterNext ==
    \/ \E u \in Units : OnReadyCall(u)
    \/ \E u \in Units : HookFulfilled(u)
    \/ \E u \in Units : HookRejected(u)
    \/ \E w \in Workers, T \in TypeSet : PyWorkerCall(w, T)

SpecRegister == RegisterInit /\ [][RegisterNext]_vars

\* ------------------------------------------------------------ SpecModule

ModuleInit ==
    /\ slot = NoLoad
    /\ loaded = {}
    /\ alreadyLive = [L \in Loads |-> FALSE]
    /\ exported = [L \in Loads |-> [n \in ExportNames |-> NoLoad]]
    /\ error \in [TypeSet -> BOOLEAN]
    /\ pluginsCalls = [L \in Loads |-> [T \in TypeSet |-> 0]]
    /\ bootstrap = [L \in Loads |-> [T \in TypeSet |-> "none"]]
    /\ hooked = [L \in Loads |-> {}]
    /\ defined = [T \in TypeSet |-> 0]
    /\ registered = [T \in TypeSet |-> 0]
    /\ configWrites = [L \in Loads |-> {}]
    /\ spawn = [s \in Spawns |-> IdleSpawn]
    /\ loadOrder = <<>>
    /\ UnitsInit({}, {Bystander}, {<<>>})
    /\ PlainDom

ModuleNext ==
    \/ \E L \in Loads : LoadModule(L)
    \/ \E L \in Loads, T \in TypeSet : BootstrapDone(L, T)
    \/ \E L \in Loads, T \in TypeSet : BootstrapFailed(L, T)
    \/ \E s \in Spawns, L \in Loads, T \in TypeSet : SpawnCall(s, L, T)
    \/ \E s \in Spawns : SpawnResume(s)

SpecModule == ModuleInit /\ [][ModuleNext]_vars

\* ---------------------------------------------------------------- claims

\* -------- helpers over the loads

FirstLoad == loadOrder[1]
LaterLoads == {L \in loaded : L # FirstLoad}

\* -------- helpers over a unit's history

Kinds(u, kind) == {i \in DOMAIN log[u] : log[u][i][1] = kind}
Has(u, ev) == \E i \in DOMAIN log[u] : log[u][i] = ev
CountOf(u, kind) == Cardinality(Kinds(u, kind))
\* every event of kind k2 comes after an event of kind k1
Before(u, k1, k2) == \A j \in Kinds(u, k2) : \E i \in Kinds(u, k1) : i < j
ConflictReports(u) ==
    {i \in Kinds(u, "stderr") : log[u][i][2] # "fetch"}
FetchReports(u) ==
    {i \in Kinds(u, "stderr") : log[u][i][2] = "fetch"}
\* the unit's handlers have all ended and its execution has had its outcome
Finished(u) ==
    \/ onReadyPc[u] = "bailed"
    \/ /\ bodyPc[u] \in {"returned", "threw"}
       /\ exec[u] \in {"none", "fulfilled", "rejected"}

\* -------- helpers over the plugin callbacks

IsPrefix(a, b) == Len(a) <= Len(b) /\ \A i \in DOMAIN a : a[i] = b[i]
\* the callbacks onReady has called for the unit, in the order of the calls
Calls(u) ==
    LET c == SelectSeq(log[u], LAMBDA e : e[1] = "call")
    IN [i \in DOMAIN c |-> c[i][2]]
\* a callback is called only when the one before it in the list has fulfilled:
\* the event before every call but the first is that fulfilment
AwaitedInTurn(u) ==
    \A i \in Kinds(u, "call") :
        \/ log[u][i][2] = mainHooks.onReady[1] /\ log[u][i - 1] = Ev("onReady", "")
        \/ \E k \in 2..Len(mainHooks.onReady) :
              /\ log[u][i][2] = mainHooks.onReady[k]
              /\ log[u][i - 1] = Ev("settled", mainHooks.onReady[k - 1])

\* C1: for every unit and every outcome of its execution, "done" is dispatched
\* if and only if "ready" was dispatched and no pending error was consumed
\* for it at the ready checkpoint.
C1_DoneIffReady ==
    \A u \in Units :
        Finished(u) =>
            (CountOf(u, "done") > 0
                <=> (CountOf(u, "ready") > 0 /\ ConflictReports(u) = {}))

\* C2: for a custom element, over any number of connectedCallback
\* invocations, the source is fetched, the children replaced, "ready" and
\* "done" dispatched and run/runAsync called at most once, and an invocation
\* after the first changes nothing of the element or the page.
C2_Once ==
    \A u \in Units :
        ~isScript(u) =>
            \A k \in {"connected", "fetch", "source", "replaceChildren", "ready",
                       "run", "done"} : CountOf(u, k) <= 1

C2_ReentryInert ==
    \A u \in Units :
        (connects[u] >= 1 /\ connects'[u] = connects[u] + 1) =>
            UNCHANGED <<elem, mainHooks, errors, alreadyRegistered, jsModule,
                        currentElement, id, ids, onReadyPc, hookIdx, bodyPc, executed,
                        wrapResolved, srcCode, exec, targetSeen, xworker, log,
                        dom, show, resolved, pyWorker>>

\* C2, whole: both of the above, in every state and at every step
C2_ExecutesOnce == [](C2_Once) /\ [][C2_ReentryInert]_vars

C2_Witness ==
    \E u \in Units :
        /\ ~isScript(u)
        /\ connects[u] >= 2
        /\ executed[u]
        /\ bodyPc[u] \in {"awaitWrap", "fetching"}

C4_AllCalledInOrder ==
    /\ \A u \in Units :
          onReadyPc[u] \in {"passed", "bailed", "rejected"} => Calls(u) = mainHooks.onReady
    /\ \A w \in Workers :
          xworker[w].state # "none" => xworker[w].calls = mainHooks.onWorker

\* C4 amended: the callbacks called are a prefix of the registered list, in
\* its order and each at most once; they are the whole list unless one of them
\* throws or rejects, which ends the calls with it; and onReady calls a
\* callback only after the one before it has fulfilled.
C4_PrefixInOrder ==
    /\ \A u \in Units :
          /\ IsPrefix(Calls(u), mainHooks.onReady)
          /\ AwaitedInTurn(u)
          /\ onReadyPc[u] \in {"passed", "bailed"} => Calls(u) = mainHooks.onReady
          /\ onReadyPc[u] = "rejected" =>
                /\ Calls(u) # <<>>
                /\ log[u][Len(log[u])] = Ev("rejected", Calls(u)[Len(Calls(u))])
          /\ onReadyPc[u] = "idle" => Calls(u) = <<>>
    /\ \A w \in Workers :
          /\ IsPrefix(xworker[w].calls, mainHooks.onWorker)
          /\ xworker[w].state = "returned" => xworker[w].calls = mainHooks.onWorker
          /\ xworker[w].state = "threw" => xworker[w].calls # <<>>
          /\ xworker[w].state # "none" => xworker[w].sync

C4_Witness ==
    /\ Len(mainHooks.onReady) >= 2
    /\ \E u \in Units : onReadyPc[u] = "passed" /\ Calls(u) = mainHooks.onReady
    /\ \E w \in Workers :
          xworker[w].state = "returned" /\ xworker[w].calls = mainHooks.onWorker

\* C5: every load site exports the PyWorker, MPWorker, hooks, config and
\* whenDefined objects created by the first load, and the process-wide slot
\* holds the first load's record in every state after the first load.
C5_SingletonExports ==
    loaded # {} =>
        /\ slot = FirstLoad
        /\ \A L \in loaded : \A n \in ExportNames : exported[L][n] = FirstLoad

C5_Witness ==
    /\ Cardinality(loaded) >= 2
    /\ \E L \in LaterLoads : alreadyLive[L] /\ exported[L]["PyWorker"] = FirstLoad

\* C6: a copy loaded when the slot is already present initializes nothing: it
\* never calls plugins(), its `hooked` map stays empty, it awaits no bootstrap
\* (so it defines no type and registers no element) and writes no exportedConfig
\* key; each flavor is defined and its element registered at most once per page.
C6_LaterLoadInert ==
    /\ \A L \in LaterLoads :
          /\ hooked[L] = {}
          /\ configWrites[L] = {}
          /\ \A T \in TypeSet : pluginsCalls[L][T] = 0 /\ bootstrap[L][T] = "none"
    /\ \A T \in TypeSet : defined[T] <= 1 /\ registered[T] <= 1

C6_Witness ==
    /\ LaterLoads # {}
    /\ \E T \in TypeSet : registered[T] = 1 /\ T \in hooked[FirstLoad]

\* C7: a background worker is constructed only once the flavor's plugin
\* bootstrap has settled and the flavor's hook table is stored in `hooked`.
C7_WorkerAfterBootstrap ==
    \A s \in Spawns :
        spawn[s].pc = "constructed" =>
            /\ bootstrap[spawn[s].owner][spawn[s].type] \in {"fulfilled", "rejected"}
            /\ spawn[s].hooks = "table"

\* C8 as stated: a script's source is resolved before its "ready" event is
\* dispatched.
C8_SourceBeforeReady ==
    \A u \in Units : isScript(u) => Before(u, "source", "ready")

\* C8 amended: for a script the order is "ready" dispatched, then the source
\* resolved (the fetch of `src` starts after "ready"), then run/runAsync
\* called, then "done" dispatched; each happens at most once and none without
\* the one before it.
C8_ScriptOrder ==
    \A u \in Units :
        isScript(u) =>
            /\ \A k \in {"ready", "fetch", "source", "run", "done"} : CountOf(u, k) <= 1
            /\ Before(u, "ready", "fetch")
            /\ Before(u, "fetch", "source") \/ ~elem[u].src
            /\ Before(u, "ready", "source")
            /\ Before(u, "source", "run")
            /\ Before(u, "run", "done")
            /\ bodyPc[u] # "none" => CountOf(u, "ready") = 1

C8_Witness ==
    \E u \in Units :
        /\ isScript(u) /\ elem[u].src
        /\ Has(u, Ev("source", "fetched"))
        /\ CountOf(u, "done") = 1

\* C9: when the fetch of a unit's external source fails, the failure is
\* reported once to the unit's stderr, the fetch is attempted once, the inline
\* content is what runs, after the report, and "ready" and then "done" are
\* dispatched.
C9_FetchFailureRecovers ==
    \A u \in Units :
        (FetchReports(u) # {} /\ Finished(u)) =>
            /\ Cardinality(FetchReports(u)) = 1
            /\ CountOf(u, "fetch") = 1
            /\ Has(u, Ev("run", "inline")) /\ CountOf(u, "run") = 1
            /\ \A i \in FetchReports(u) : \A j \in Kinds(u, "run") : i < j
            /\ CountOf(u, "ready") = 1
            /\ CountOf(u, "done") = 1
            /\ Before(u, "ready", "done")

\* C10: what the code of a unit reads from the injected module's `target` is
\* the id of the unit's own display target.
C10_TargetIsOwn ==
    \A u \in Units : \A v \in targetSeen[u] : v = ids[u]

\* -------- helpers over the rejection of a plugin callback

\* the positions in the unit's history where a plugin onReady callback rejected
HookRejections(u) == {i \in Kinds(u, "rejected") : log[u][i][2] # ""}

\* C11: once a plugin callback of onReady has thrown or rejected for a unit,
\* onReady has rejected to its caller, no plugin callback is called for the
\* unit after it, and the unit's execution never happens: no "ready", no
\* fetchSource, no run/runAsync, no resolved wrap promise.
C11_RejectionAborts ==
    \A u \in Units :
        HookRejections(u) # {} =>
            /\ onReadyPc[u] = "rejected"
            /\ Cardinality(HookRejections(u)) = 1
            /\ \A i \in HookRejections(u) :
                  /\ \A j \in Kinds(u, "call") : j < i
                  /\ log[u][i][2] = Calls(u)[Len(Calls(u))]
            /\ IsPrefix(Calls(u), mainHooks.onReady)
            /\ \A k \in {"ready", "fetch", "source", "run", "done", "resolve",
                          "stderr", "defineProperty"} : CountOf(u, k) = 0
            /\ ~wrapResolved[u]
            /\ show[u] = NoShow
            /\ bodyPc[u] \in {"none", "awaitWrap"}
            /\ exec[u] = "none"

\* a first callback rejected with a second one registered, for a custom
\* element that was then connected and waits for its wrap promise
C11_Witness ==
    \E u \in Units :
        /\ Len(mainHooks.onReady) >= 2
        /\ Has(u, Ev("rejected", mainHooks.onReady[1]))
        /\ ~isScript(u)
        /\ bodyPc[u] = "awaitWrap"

\* C12: a flavor whose config carries an error never has plugins() called, a
\* hook table stored, its type defined or its custom element registered; a
\* flavor without error is bootstrapped by the first load whatever the other
\* flavor's config, and is defined and registered, once, when its bootstrap
\* has fulfilled.
C12_ConfigErrorFailsClosed ==
    \A T \in TypeSet :
        /\ error[T] =>
              /\ \A L \in Loads :
                    /\ pluginsCalls[L][T] = 0
                    /\ bootstrap[L][T] = "none"
                    /\ T \notin hooked[L]
              /\ defined[T] = 0
              /\ registered[T] = 0
        /\ (~error[T] /\ loaded # {}) =>
              /\ pluginsCalls[FirstLoad][T] = 1
              /\ bootstrap[FirstLoad][T] # "none"
              /\ bootstrap[FirstLoad][T] = "fulfilled" <=> T \in hooked[FirstLoad]
              /\ bootstrap[FirstLoad][T] = "fulfilled" <=> defined[T] = 1
              /\ bootstrap[FirstLoad][T] = "fulfilled" <=> registered[T] = 1

\* one flavor in error, the loop body run for it, and the other flavor registered
C12_Witness ==
    \E T, U \in TypeSet :
        /\ error[T] /\ ~error[U]
        /\ loaded # {} /\ T \in configWrites[FirstLoad]
        /\ registered[U] = 1 /\ U \in hooked[FirstLoad]

\* C13: every error event raised by a worker made through this module, by the
\* exported facade or by the injected PyWorker, has been reported to io.stderr.
\* (The facade is an async function and the events come later, so nothing is
\* thrown into the code that called the spawn.)
C13_WorkerErrorsReported ==
    /\ \A s \in Spawns : spawn[s].reported = spawn[s].raised
    /\ \A w \in Workers :
          pyWorker[w].state = "errored" =>
              pyWorker[w].stderr = 1 /\ pyWorker[w].io \in Units

\* C14: no entry of the error ledger is left unreported: once the onReady of
\* a unit has ended, the one place that reads the ledger, every error recorded
\* for the unit has been deleted from it and reported to the unit's stderr,
\* and no report was made twice.
C14_EveryEntryReported ==
    \A u \in Units :
        onReadyPc[u] \in {"passed", "bailed", "rejected", "threw"} =>
            /\ errors[u] = NoError
            /\ errBefore[u] => Cardinality(ConflictReports(u)) = 1

\* -------- helpers over the core work of the checkpoints

\* the positions in the unit's history of what onReady does from its ledger
\* check on: the report of a pending error, the target resolution, "ready",
\* the resolution of the wrap promise
LedgerChecked(u) ==
    ConflictReports(u) \cup Kinds(u, "defineProperty") \cup Kinds(u, "ready")
        \cup Kinds(u, "resolve")
\* onWorker assigned the sync object before it called any plugin callback
SyncFirst ==
    \A w \in Workers :
        xworker[w].state # "none" =>
            /\ xworker[w].sync
            /\ xworker[w].steps[1] = "sync"
            /\ xworker[w].steps = <<"sync">> \o xworker[w].calls
\* onBeforeRun / onBeforeRunAsync set the current unit right before the plugin
\* callbacks of the same name, and did so for every run
CurrentFirst ==
    \A u \in Units :
        /\ \A j \in Kinds(u, "plugins") :
              log[u][j - 1] = Ev("currentElement", log[u][j][2])
        /\ (bodyPc[u] \in {"returned", "threw"} /\ isSync(u)) =>
              Has(u, Ev("currentElement", "onBeforeRun"))
        /\ exec[u] \in {"executing", "fulfilled", "rejected"} =>
              Has(u, Ev("currentElement", "onBeforeRunAsync"))

\* C15 as stated: the core work of each checkpoint runs before any plugin
\* callback of the checkpoint: at onReady the module registration, the ledger
\* check, the target resolution and "ready"; at onWorker the sync object; at
\* onBeforeRun / onBeforeRunAsync the current unit.
C15_CoreBeforePlugins ==
    /\ \A u \in Units :
          \A j \in Kinds(u, "call") :
              /\ jsModule[TypeOf(u)] # <<>>
              /\ \E i \in LedgerChecked(u) : i < j
    /\ SyncFirst
    /\ CurrentFirst

\* C15 amended: at onReady only the module registration runs before the plugin
\* callbacks; the ledger check, the target resolution and "ready" run after
\* every plugin callback has fulfilled (at once when none is registered). At
\* onWorker and onBeforeRun / onBeforeRunAsync the core work runs first, and
\* runs with no plugin registered too.
C15_CoreAroundPlugins ==
    /\ \A u \in Units :
          /\ onReadyPc[u] # "idle" => jsModule[TypeOf(u)] # <<>>
          /\ \A i \in LedgerChecked(u) :
                /\ \A j \in Kinds(u, "call") : j < i
                /\ Calls(u) = mainHooks.onReady
                /\ CountOf(u, "settled") = Len(mainHooks.onReady)
                /\ HookRejections(u) = {}
          /\ onReadyPc[u] \in {"passed", "bailed"} => LedgerChecked(u) # {}
    /\ SyncFirst
    /\ CurrentFirst

\* callbacks registered; a script past "ready" and its run, and a worker
\* handed to onWorker
C15_Witness ==
    /\ Len(mainHooks.onReady) >= 1
    /\ \E u \in Units :
          /\ isScript(u) /\ CountOf(u, "ready") = 1
          /\ CountOf(u, "plugins") = 1
    /\ \E w \in Workers : xworker[w].state = "returned" /\ xworker[w].calls # <<>>

\* C16: "done" is dispatched only once the execution has completed: right
\* after run has returned for a sync unit; once the runAsync promise has
\* settled, fulfilled or rejected, for an async unit, and never while it is
\* pending.
C16_DoneOnCompletion ==
    \A u \in Units :
        /\ CountOf(u, "done") <= 1
        /\ \A j \in Kinds(u, "done") :
              /\ j > 1
              /\ log[u][j - 1] \in IF isSync(u) THEN {Ev("returned", "")}
                                   ELSE {Ev("fulfilled", ""), Ev("rejected", "")}
        /\ exec[u] \in {"pending", "executing"} => CountOf(u, "done") = 0
        /\ (isSync(u) /\ bodyPc[u] = "returned") => CountOf(u, "done") = 1
        /\ exec[u] \in {"fulfilled", "rejected"} => CountOf(u, "done") = 1

\* C17: at the ready checkpoint of a script with no pending error, the display
\* element is the one looked up for a non-empty `target` attribute, with
\* nothing created or inserted; otherwise one new element, inserted right
\* after the unit, or at the end of the body for a unit in the head. It has a
\* non-empty id afterwards, its own if it had one, and is the unit's `target`
\* property before "ready" is dispatched.
C17_DisplayTarget ==
    \A u \in Units :
        (isScript(u) /\ onReadyPc[u] \in {"passed", "threw"}) =>
            /\ dom[u].target # "" =>
                  show[u].element = "found" /\ show[u].place = "none"
            /\ dom[u].target = "" =>
                  /\ show[u].element = "created"
                  /\ show[u].place = IF dom[u].inHead THEN "bodyEnd" ELSE "afterUnit"
            /\ ids[u] # NoId
            /\ dom[u].target = "id" => ids[u] = <<"document", u>>
            /\ show[u].isTarget
            /\ CountOf(u, "defineProperty") = 1 /\ CountOf(u, "ready") = 1
            /\ Before(u, "defineProperty", "ready")

\* -------- helpers over the resolved source

\* fetchSource has returned for the unit
Resolved(u) == resolved[u].path # "none"
\* the fetch of the unit's `src` succeeded
Fetched(u) == elem[u].src /\ FetchReports(u) = {}
\* the safe flag fetchSource is called with
Safe(u) == isScript(u) \/ ~dom[u].children
\* text `b` is text `a` with the leading whitespace common to its non-blank
\* lines removed and the relative indentation of its lines kept
Dedented(a, b) ==
    /\ Len(b) = Len(a)
    /\ \A i \in DOMAIN a : b[i].blank = a[i].blank
    /\ \A i, j \in DOMAIN a :
          (~a[i].blank /\ ~a[j].blank) =>
              b[i].indent - b[j].indent = a[i].indent - a[j].indent
    /\ (\E i \in DOMAIN a : ~a[i].blank) =>
          \E i \in DOMAIN b : ~b[i].blank /\ b[i].indent = 0

C19_CommonPrefixRemoved ==
    \A u \in Units :
        Resolved(u) =>
            Dedented(IF resolved[u].path = "fetched" THEN dom[u].remote ELSE dom[u].text,
                     resolved[u].code.lines)

\* C19 amended: on the two inline paths the resolved source is the inline text
\* with its common leading whitespace removed; fetched text is the source as
\* it was fetched.
C19_InlinePrefixRemoved ==
    \A u \in Units :
        Resolved(u) =>
            IF resolved[u].path = "fetched"
            THEN resolved[u].code.lines = dom[u].remote
            ELSE Dedented(dom[u].text, resolved[u].code.lines)

\* an inline text of two lines, indented by two columns and by one, resolved
\* to lines indented by one column and by none
C19_Witness ==
    \E u \in Units :
        /\ resolved[u].path \in {"text", "markup"}
        /\ Len(dom[u].text) = 2
        /\ ~dom[u].text[1].blank /\ dom[u].text[1].indent = 2
        /\ ~dom[u].text[2].blank /\ dom[u].text[2].indent = 1
        /\ resolved[u].code.lines[1].indent = 1
        /\ resolved[u].code.lines[2].indent = 0

\* -------- helpers over the registration of the injected module

UnitsOf(T) == {u \in Units : TypeOf(u) = T}

\* C20: for each flavor the `_pyscript` module is registered at most once, by
\* the first unit of the flavor whose onReady is called, whatever the
\* interleaving of the onReady calls; a later onReady call leaves the
\* registration as it is, and the io the injected PyWorker reports to is the
\* first unit's.
C20_Registered ==
    \A T \in TypeSet :
        /\ Len(jsModule[T]) <= 1
        /\ alreadyRegistered[T] <=> jsModule[T] # <<>>
        /\ jsModule[T] = <<>> <=> \A u \in UnitsOf(T) : onReadyPc[u] = "idle"
        /\ jsModule[T] # <<>> =>
              jsModule[T][1] \in UnitsOf(T) /\ onReadyPc[jsModule[T][1]] # "idle"
        /\ \A w \in Workers :
              (pyWorker[w].state # "none" /\ pyWorker[w].type = T) =>
                  jsModule[T] # <<>> /\ pyWorker[w].io = jsModule[T][1]

C20_ByFirstOnly ==
    \A T \in TypeSet :
        /\ jsModule[T] # <<>> => jsModule'[T] = jsModule[T]
        /\ (jsModule[T] = <<>> /\ jsModule'[T] # <<>>) =>
              \E u \in UnitsOf(T) :
                  /\ jsModule'[T] = <<u>>
                  /\ onReadyPc[u] = "idle" /\ onReadyPc'[u] # "idle"

\* C20, whole: both of the above, in every state and at every step
C20_RegisteredOnce == [](C20_Registered) /\ [][C20_ByFirstOnly]_vars

\* two units of one flavor past the call of their onReady, one of them
\* suspended on a plugin callback, and a worker made by the injected PyWorker
C20_Witness ==
    \E T \in TypeSet :
        /\ Len(jsModule[T]) = 1
        /\ \E u, v \in UnitsOf(T) :
              u # v /\ onReadyPc[u] = "hook" /\ onReadyPc[v] \notin {"idle", "hook"}
        /\ \E w \in Workers : pyWorker[w].state = "created" /\ pyWorker[w].type = T

====
